---- MODULE Spec2Model ----
(***************************************************************************)
(* Model of the Jamf Bedrock agent bridge:                                 *)
(*   lambda/slack_handler.py   - inbound gateway, session keeper, relay    *)
(*   agent/jamf_inline_agent.py - tool bridge and request dispatcher       *)
(*                                                                         *)
(* Scheduling model: one asyncio event loop.  The variable cur holds the   *)
(* task that is executing synchronous code (0 when the loop is free); a    *)
(* task gives the loop up only where the code really suspends (transport   *)
(* handshake, list_tools, the next chunk of the agent stream).             *)
(* Time is counted in half seconds so that the float returned by           *)
(* time.time() can lie between two integer timestamps.                     *)
(***************************************************************************)
EXTENDS Integers, Sequences, FiniteSets, TLC

\* ------------------------------------------------------------------ bounds
MaxCalls == 2
MaxClock == 2
MaxChunks == 12
MaxToolCalls == 1
MaxBurstChunks == 1
MaxTools == 3
MaxWrapperCalls == 2
MaxProcs == 2
MaxProcCalls == 1

\* ------------------------------------------------------- program constants
\* 60 * 5 seconds, in half seconds
FiveMinutes == 2 * (60 * 5)
\* the chunk batch size of the relay
BatchSize == 5
\* os.environ.get("SLACK_SIGNING_SECRET", "") as a key value
SLACK_SIGNING_SECRET == 11
\* module-level global, never assigned anywhere in the repository
global_mcp_client == "None"
\* the operations create_jamf_agents gives the orchestrator, with the
\* provider tool name each one sends
AgentTools == { "searchDevices", "getDeviceDetails", "updateInventory", "executePolicy" }
AgentNames == { "orchestrator", "device_agent", "policy_agent" }

\* ------------------------------------------------------------ input domains
Challenges == { "abc123", "xyz" }
\* slash command texts, one character per element
SlashTexts == { <<>>, <<" ">>, <<"h","e","l","p">>, <<"H","E","L","P">>,
                <<" ","H","e","l","p"," ">>, <<"h","e","l","p","x">>, <<"x">> }
\* mention texts: "@" stands for the literal "<@BOTID>"
MentionTexts == { <<"@">>, <<"@", " ">>, <<"@", " ", "x">>, <<"x">> }
DmTexts == { <<>>, <<"x">> }
\* what the provider may answer to list_tools
ProviderToolSets == { {"searchDevices", "listPolicies"}, AgentTools }
\* timestamp header offsets (whole seconds) relative to the current second
TsOffsets == { -301, -300, -299, 0, 299, 300, 301 }

\* ------------------------------------------------------------ pure helpers
Abs(x) == IF x < 0 THEN -x ELSE x

\* f"{user_id}_{channel_id}"
SessionId(u, c) == u \o <<"_">> \o c

\* datetime.isoformat(): the fraction is omitted when it is zero
IsoFormat(t) == IF t % 2 = 0 THEN << t \div 2 >> ELSE << t \div 2, 5 >>

\* lexicographic order of two isoformat strings
IsoLeq(a, b) ==
    \/ a[1] < b[1]
    \/ /\ a[1] = b[1]
       /\ \/ Len(a) = 1
          \/ Len(b) = 2 /\ a[2] <= b[2]

IsSpace(ch) == ch = " "

RECURSIVE LStrip(_)
LStrip(s) == IF s # <<>> /\ IsSpace(Head(s)) THEN LStrip(Tail(s)) ELSE s

RECURSIVE RStrip(_)
RStrip(s) == IF s # <<>> /\ IsSpace(s[Len(s)]) THEN RStrip(SubSeq(s, 1, Len(s) - 1)) ELSE s

\* str.strip()
Strip(s) == RStrip(LStrip(s))

LowerChar(ch) ==
    CASE ch = "H" -> "h"
      [] ch = "E" -> "e"
      [] ch = "L" -> "l"
      [] ch = "P" -> "p"
      [] ch = "X" -> "x"
      [] OTHER -> ch

\* the text compared as typed, without lower()
LowerOmitted(s) == s

\* str.lower()
Lower(s) == [i \in 1..Len(s) |-> LowerChar(s[i])]

\* text.replace('<@BOT>', '')
RECURSIVE RemoveMention(_)
RemoveMention(s) ==
    IF s = <<>> THEN <<>>
    ELSE IF Head(s) = "@" THEN RemoveMention(Tail(s))
    ELSE <<Head(s)>> \o RemoveMention(Tail(s))

\* ''.join(chunks)
RECURSIVE Join(_)
Join(chunks) == IF chunks = <<>> THEN <<>> ELSE Head(chunks) \o Join(Tail(chunks))

\* a stand-in for the bytes of a request body
BodyCode(b) ==
    Len(b.text) + Len(b.user) * 3 + Len(b.channel) * 5
    + (IF b.kind = "url_verification" THEN 1 ELSE 0) * 7
    + (IF b.kind = "event_callback" THEN 1 ELSE 0) * 11
    + (IF b.kind = "form" THEN 1 ELSE 0) * 13
    + (IF b.challenge = "abc123" THEN 17 ELSE 0)
    + (IF b.ev = "app_mention" THEN 19 ELSE 0)
    + (IF b.bot THEN 23 ELSE 0)
    + (IF b.command = "/jamf" THEN 29 ELSE 0)

\* hmac.new(secret, f"v0:{timestamp}:{body}", sha256).hexdigest(), as an
\* 8-bit keyed digest of the timestamp string and the body
HmacDigest(secret, ts, body) == (secret * 37 + ts * 131 + BodyCode(body)) % 256

\* the digest with bit i inverted
FlipBit(d, i) ==
    LET p == 2 ^ i
    IN  IF (d \div p) % 2 = 1 THEN d - p ELSE d + p

\* ------------------------------------------------------------ inbound calls
\* two pairs that differ and one more; the first two share the characters
\* of their identifiers
Pairs == { << <<"a", "_", "b">>, <<"c">> >>, << <<"a">>, <<"b", "_", "c">> >>, << <<"a">>, <<"c">> >> }
FirstPair == << <<"a">>, <<"c">> >>

MkBody(kind, challenge, ev, im, bot, auth, uc, text, command) ==
    [ kind |-> kind, challenge |-> challenge, ev |-> ev, im |-> im, bot |-> bot,
      auth |-> auth, user |-> uc[1], channel |-> uc[2], text |-> text,
      command |-> command ]

NoBody == MkBody("none", "", "", FALSE, FALSE, "ok", << <<>>, <<>> >>, <<>>, "")

ChallengeBodies ==
    { MkBody("url_verification", c, "", FALSE, FALSE, "ok", << <<>>, <<>> >>, <<>>, "") :
        c \in Challenges }

MentionBodies ==
    { MkBody("event_callback", "", "app_mention", FALSE, FALSE, "ok", uc, <<"@", " ", "x">>, "") :
        uc \in Pairs }
    \cup { MkBody("event_callback", "", "app_mention", FALSE, FALSE, "ok", FirstPair, tx, "") :
             tx \in MentionTexts }
    \cup { MkBody("event_callback", "", "app_mention", FALSE, FALSE, "empty", FirstPair, <<"@", " ", "x">>, "") }

DmBodies ==
    { MkBody("event_callback", "", "message", TRUE, b, "ok", FirstPair, tx, "") :
        b \in BOOLEAN, tx \in DmTexts }

OtherEventBodies ==
    { MkBody("event_callback", "", "message", FALSE, FALSE, "ok", FirstPair, <<"x">>, ""),
      MkBody("event_callback", "", "reaction_added", FALSE, FALSE, "ok", FirstPair, <<>>, "") }

OtherJsonBodies ==
    { MkBody("app_rate_limited", "", "", FALSE, FALSE, "ok", << <<>>, <<>> >>, <<>>, "") }

FormBodies ==
    { MkBody("form", "", "", FALSE, FALSE, "ok", FirstPair, tx, "/jamf") : tx \in SlashTexts }
    \cup { MkBody("form", "", "", FALSE, FALSE, "ok", uc, <<"x">>, "/jamf") : uc \in Pairs }
    \cup { MkBody("form", "", "", FALSE, FALSE, "ok", FirstPair, <<"x">>, "/other") }
    \* forms that lack fields: .get(name, '') gives the empty string
    \cup { MkBody("form", "", "", FALSE, FALSE, "ok", FirstPair, <<"x">>, ""),
           MkBody("form", "", "", FALSE, FALSE, "ok", << <<>>, <<>> >>, <<"x">>, "/jamf") }

JsonBodies == ChallengeBodies \cup MentionBodies \cup DmBodies \cup OtherEventBodies \cup OtherJsonBodies

\* the signature headers tried for a timestamp and a body
SigInputs(ts, body) ==
    LET d == HmacDigest(SLACK_SIGNING_SECRET, ts, body)
    IN  { <<"v0=", d>>, <<"v0=", FlipBit(d, 0)>>, <<"v0=", FlipBit(d, 7)>>,
          <<"v1=", d>>, <<>> }

MkRequest(tskind, ts, sig, ctype, body) ==
    [ ts |-> [kind |-> tskind, val |-> ts], sig |-> sig, ctype |-> ctype, body |-> body ]

NoRequest == MkRequest("none", 0, <<>>, "", NoBody)

ProbeBody == CHOOSE b \in ChallengeBodies : b.challenge = "abc123"

\* authenticity probes: one body, every timestamp and signature variation
ProbeRequests(now) ==
    UNION { { MkRequest("numeric", (now \div 2) + off, sig, "application/json", ProbeBody) :
                sig \in SigInputs((now \div 2) + off, ProbeBody) } : off \in TsOffsets }
    \cup { MkRequest(k, 0, sig, "application/json", ProbeBody) :
             k \in {"missing", "garbage"}, sig \in { <<>>, <<"v0=", HmacDigest(SLACK_SIGNING_SECRET, 0, ProbeBody)>> } }

Signed(now, ct, b) ==
    MkRequest("numeric", now \div 2, <<"v0=", HmacDigest(SLACK_SIGNING_SECRET, now \div 2, b)>>, ct, b)

\* correctly signed, fresh requests of every shape
SignedRequests(now) ==
    { Signed(now, "application/json; charset=utf-8", b) : b \in JsonBodies }
    \cup { Signed(now, "application/x-www-form-urlencoded", b) : b \in FormBodies }
    \cup { Signed(now, ct, b) : ct \in {"text/plain", ""}, b \in ChallengeBodies }

\* the events handed in while earlier events are still being processed
OverlapBodies ==
    { b \in MentionBodies \cup DmBodies :
        /\ << b.user, b.channel >> = FirstPair
        /\ ~b.bot
        /\ b.text \in { <<"@", " ", "x">>, <<"x">> }
        /\ b.auth = "ok"
        /\ b.ev = "app_mention" => b.text = <<"@", " ", "x">> }

\* the inputs of one run: authenticity probes; or every request shape, the
\* caller waiting for each event to be processed; or event callbacks handed
\* in while earlier ones are still in progress; or no inbound call at all,
\* process_request being called
\* directly without a session_id as main() does
Modes == { "probe", "serial", "overlap", "direct" }

Requests(now, m) ==
    CASE m = "probe" -> ProbeRequests(now)
      [] m = "serial" -> SignedRequests(now)
      [] m = "overlap" -> { Signed(now, "application/json", b) : b \in OverlapBodies }
      [] m = "direct" -> {}

\* content_type == 'application/json' instead of a substring test
IsJsonTypeExact(ct) == ct = "application/json"

\* 'application/json' in content_type
IsJsonType(ct) == ct \in { "application/json", "application/json; charset=utf-8" }
\* 'application/x-www-form-urlencoded' in content_type
IsFormType(ct) == ct = "application/x-www-form-urlencoded"

\* verify_slack_request without abs(): only the past is bounded
verify_slack_request_no_abs(event, now) ==
    IF event.ts.kind # "numeric" THEN "ValueError"
    ELSE IF now - 2 * event.ts.val > FiveMinutes THEN "False"
    ELSE IF <<"v0=", HmacDigest(SLACK_SIGNING_SECRET, event.ts.val, event.body)>> = event.sig
         THEN "True" ELSE "False"

\* verify_slack_request: "True", "False", or the exception int() raises
verify_slack_request(event, now) ==
    IF event.ts.kind # "numeric" THEN "ValueError"
    ELSE IF Abs(now - 2 * event.ts.val) > FiveMinutes THEN "False"
    ELSE IF <<"v0=", HmacDigest(SLACK_SIGNING_SECRET, event.ts.val, event.body)>> = event.sig
         THEN "True" ELSE "False"

MkResp(status, key, val, text) == [ status |-> status, key |-> key, val |-> val, text |-> text ]
NoResp == MkResp(0, "", "", "")
\* an exception that leaves lambda_handler
Raised(exc) == MkResp(0, "raise", exc, "")

\* -------------------------------------------------------------------- state
VARIABLES
    clock,          \* wall clock, in half seconds
    loopRunning,    \* lambda_handler is entered from a coroutine of a running loop
    mode,           \* the kind of run, see Requests
    production,     \* os.environ.get("ENVIRONMENT") == "production"
    cur,            \* the task executing synchronous code, 0 when the loop is free
    calls,          \* number of lambda_handler invocations so far
    hpc,            \* position of the handler: idle, received, blocked, responded
    inflight,       \* the event the handler is working on
    resp,           \* what lambda_handler returned (or raised)
    store,          \* sessions_table: a set of items
    sys,            \* agent_system: initialized, agents, mcp_action_group
    ag,             \* the JamfMCPActionGroup created by each task's initialize
    conn,           \* the transport connection opened by each task
    tasks,          \* process_event / process_slash_command coroutines
    callToolCount,  \* call_tool requests sent over the transport
    wrappers,       \* what create_tool_functions built, and the calls made to it
    procs           \* handler processes of other execution environments, in get_or_create_session

vars == << clock, loopRunning, mode, production, cur, calls, hpc, inflight, resp,
           store, sys, ag, conn, tasks, callToolCount, wrappers, procs >>

\* what a run of the bridge leaves as it is: the environment, the wrappers
\* of create_tool_functions, which the bridge never builds, and the handler
\* processes of other execution environments
envVars == << loopRunning, mode, production, wrappers, procs >>
gatewayVars == << calls, hpc, inflight, resp >>
bridgeVars == << sys, ag, conn, callToolCount >>

TaskIds == 1..MaxCalls

\* the longest stream the agent runtime produces in a run
ChunkLimit == IF mode = "overlap" THEN MaxBurstChunks ELSE MaxChunks

\* a reading of the wall clock: time does not run backwards; a burst of
\* overlapping events falls within one tick
ReadingsAfter(t) == IF mode = "overlap" THEN { t } ELSE { n \in t..(t + 1) : n <= MaxClock }
Readings == ReadingsAfter(clock)

\* the outcome of one tool operation run by the agent runtime
NoTool == [ name |-> "", known |-> FALSE, error |-> "", sent |-> FALSE ]

NewTask(kind, body) ==
    [ kind |-> kind, pc |-> "start", body |-> body, sid |-> <<>>, chunks |-> <<>>,
      message_ts |-> 0, log |-> <<>>, caught |-> "", exc |-> "", result |-> NoResp,
      tool |-> NoTool, ntools |-> 0, skipped |-> FALSE, fx |-> {},
      asid |-> <<>>, rsid |-> <<>> ]

NoTask == [ NewTask("none", NoBody) EXCEPT !.pc = "none" ]

\* JamfMCPActionGroup.__init__
NewActionGroup == [ mcp_session |-> "None", available_tools |-> {} ]

\* JamfAgentSystem.__init__
NewAgentSystem == [ initialized |-> FALSE, agents |-> {}, mcp_action_group |-> 0 ]

\* create_tool_functions has not been called
NoWrappers == [ available_tools |-> <<>>, built |-> FALSE, tool_functions |-> <<>>,
                tool_name |-> "", calls |-> <<>> ]

ProcIds == 1..MaxProcs

\* a handler process that is not inside get_or_create_session
IdleProc == [ pc |-> "idle", pair |-> << <<>>, <<>> >>, ncalls |-> 0, logged |-> FALSE ]
NoProcs == [p \in ProcIds |-> IdleProc]

Init ==
    /\ wrappers = NoWrappers
    /\ procs = NoProcs
    /\ clock = 0
    /\ loopRunning \in BOOLEAN
    /\ mode \in (IF loopRunning THEN Modes ELSE Modes \ {"overlap", "direct"})
    /\ production \in BOOLEAN
    /\ cur = 0
    /\ calls = 0
    /\ hpc = "idle"
    /\ inflight = NoRequest
    /\ resp = NoResp
    /\ store = {}
    /\ sys = NewAgentSystem
    /\ ag = [t \in TaskIds |-> NewActionGroup]
    /\ conn = [t \in TaskIds |-> "none"]
    /\ tasks = [t \in TaskIds |-> NoTask]
    /\ callToolCount = 0

\* ------------------------------------------------------------ session keeper
Item(sid, u, c, created, accessed) ==
    [ session_id |-> sid, user_id |-> u, channel_id |-> c,
      created_at |-> created, last_accessed |-> accessed ]

\* sessions_table.get_item(Key={'session_id': sid})
GetItem(tbl, sid) == { it \in tbl : it.session_id = sid }

\* sessions_table.put_item(Item=item): replaces the item with the same key
PutItem(tbl, item) == { it \in tbl : it.session_id # item.session_id } \cup { item }

\* an update that rewrites the creation time as well
UpdateItemBothTimes(tbl, sid, time) ==
    { IF it.session_id = sid THEN [it EXCEPT !.last_accessed = time, !.created_at = time] ELSE it :
        it \in tbl }

\* sessions_table.update_item(... 'SET last_accessed = :time')
UpdateItem(tbl, sid, time) ==
    { IF it.session_id = sid THEN [it EXCEPT !.last_accessed = time] ELSE it : it \in tbl }

\* a get_or_create_session whose except clause returns no identifier
get_or_create_session_none_on_error(tk, user_id, channel_id) ==
    LET session_id == SessionId(user_id, channel_id)
        got(calls_made) == [tk EXCEPT !.sid = session_id, !.fx = @ \cup calls_made]
        lost(calls_made) == [tk EXCEPT !.fx = @ \cup calls_made \cup {"logger.error"}]
    IN  { [ store |-> store, clock |-> clock, task |-> lost({"get_item"}) ] }
        \cup
        (IF GetItem(store, session_id) # {}
         THEN { [ store |-> IF ok THEN UpdateItem(store, session_id, IsoFormat(t1)) ELSE store,
                  clock |-> t1,
                  task |-> IF ok THEN got({"get_item", "update_item"})
                           ELSE lost({"get_item", "update_item"}) ] :
                t1 \in Readings, ok \in BOOLEAN }
         ELSE { [ store |-> IF ok
                            THEN PutItem(store, Item(session_id, user_id, channel_id,
                                                     IsoFormat(tt[1]), IsoFormat(tt[2])))
                            ELSE store,
                  clock |-> tt[2],
                  task |-> IF ok THEN got({"get_item", "put_item"})
                           ELSE lost({"get_item", "put_item"}) ] :
                tt \in { p \in Readings \X ReadingsAfter(clock + 1) : p[2] \in ReadingsAfter(p[1]) },
                ok \in BOOLEAN })

\* get_or_create_session, run by task tk: the possible outcomes, each with
\* the table and the clock after it and the task holding the returned
\* session_id (the same on every path) and the store calls it made; a call
\* that raises is caught and logged.  Each utcnow() is a new reading of the
\* clock.
get_or_create_session(tk, user_id, channel_id) ==
    LET session_id == SessionId(user_id, channel_id)
        got(calls_made) == [tk EXCEPT !.sid = session_id, !.fx = @ \cup calls_made]
        Logged(ok) == IF ok THEN {} ELSE {"logger.error"}
    IN  \* get_item raises
        { [ store |-> store, clock |-> clock, task |-> got({"get_item", "logger.error"}) ] }
        \cup
        (IF GetItem(store, session_id) # {}
         THEN { [ store |-> IF ok THEN UpdateItem(store, session_id, IsoFormat(t1)) ELSE store,
                  clock |-> t1,
                  task |-> got({"get_item", "update_item"} \cup Logged(ok)) ] :
                t1 \in Readings, ok \in BOOLEAN }
         ELSE { [ store |-> IF ok
                            THEN PutItem(store, Item(session_id, user_id, channel_id,
                                                     IsoFormat(tt[1]), IsoFormat(tt[2])))
                            ELSE store,
                  clock |-> tt[2],
                  task |-> got({"get_item", "put_item"} \cup Logged(ok)) ] :
                tt \in { p \in Readings \X ReadingsAfter(clock + 1) : p[2] \in ReadingsAfter(p[1]) },
                ok \in BOOLEAN })

\* ----------------------------------------------------------- inbound gateway
\* the slot of the next coroutine
FreeSlot == CHOOSE t \in TaskIds : tasks[t].kind = "none" /\ \A u \in 1..(t - 1) : tasks[u].kind # "none"

\* the coroutine run_until_complete is driving
SlashTask == CHOOSE t \in TaskIds : tasks[t].kind = "slash"

\* at most one coroutine is in progress: the next event makes it a pair
OneInProgress == \A t, u \in TaskIds : tasks[t].kind # "none" /\ tasks[u].kind # "none" => t = u

\* API Gateway hands an event to lambda_handler; outside a burst the caller
\* waits until the previous event has been processed
Receive ==
    /\ hpc = "idle"
    /\ cur = 0
    /\ calls < MaxCalls
    /\ \A t \in TaskIds : tasks[t].kind = "none" \/ (mode = "overlap" /\ OneInProgress)
    /\ \E ev \in Requests(clock, mode) : inflight' = ev
    /\ hpc' = "received"
    /\ calls' = calls + 1
    /\ UNCHANGED << clock, envVars, cur, resp, store, bridgeVars, tasks >>

\* main(): "response = await agent_system.process_request(query)", one
\* query after the other
DirectCall ==
    /\ mode = "direct"
    /\ cur = 0
    /\ calls < MaxCalls
    /\ \A t \in TaskIds : tasks[t].kind = "none"
    /\ tasks' = [tasks EXCEPT ![FreeSlot] = [NewTask("direct", NoBody) EXCEPT !.pc = "request"]]
    /\ cur' = FreeSlot
    /\ calls' = calls + 1
    /\ UNCHANGED << clock, envVars, hpc, inflight, resp, store, bridgeVars >>

\* lambda_handler up to its return, or up to run_until_complete
LambdaHandler ==
    /\ hpc = "received"
    /\ \E now \in Readings :
         /\ clock' = now
         /\ LET verdict == verify_slack_request(inflight, now)
                body == inflight.body
            IN  IF verdict = "ValueError"
                THEN /\ resp' = Raised("ValueError")
                     /\ hpc' = "responded"
                     /\ UNCHANGED tasks
                ELSE IF verdict = "False"
                THEN /\ resp' = MkResp(401, "error", "Unauthorized", "")
                     /\ hpc' = "responded"
                     /\ UNCHANGED tasks
                ELSE IF IsJsonType(inflight.ctype) /\ body.kind = "url_verification"
                THEN /\ resp' = MkResp(200, "challenge", body.challenge, "")
                     /\ hpc' = "responded"
                     /\ UNCHANGED tasks
                ELSE IF IsJsonType(inflight.ctype) /\ body.kind = "event_callback"
                THEN \* asyncio.create_task needs a running loop
                     IF loopRunning
                     THEN /\ tasks' = [tasks EXCEPT ![FreeSlot] = NewTask("event", body)]
                          /\ resp' = MkResp(200, "status", "ok", "")
                          /\ hpc' = "responded"
                     ELSE /\ resp' = Raised("RuntimeError")
                          /\ hpc' = "responded"
                          /\ UNCHANGED tasks
                ELSE IF IsFormType(inflight.ctype)
                THEN \* run_until_complete refuses to run inside a running loop
                     IF loopRunning
                     THEN /\ resp' = Raised("RuntimeError")
                          /\ hpc' = "responded"
                          /\ UNCHANGED tasks
                     ELSE /\ tasks' = [tasks EXCEPT ![FreeSlot] = NewTask("slash", body)]
                          /\ hpc' = "blocked"
                          /\ UNCHANGED resp
                ELSE /\ resp' = MkResp(400, "error", "Bad request", "")
                     /\ hpc' = "responded"
                     /\ UNCHANGED tasks
    /\ UNCHANGED << envVars, cur, calls, inflight, store, bridgeVars >>

\* what is left of a task's bridge objects once the coroutine is gone: the
\* action group the agent system still refers to
KeepIfHeld(f, t, fresh) == IF sys.mcp_action_group = t THEN f ELSE [f EXCEPT ![t] = fresh]

\* run_until_complete returns the slash command's response; lambda_handler
\* wraps it in a 200
SlashReturn ==
    /\ hpc = "blocked"
    /\ cur = SlashTask
    /\ tasks[SlashTask].pc = "done"
    /\ resp' = tasks[SlashTask].result
    /\ hpc' = "responded"
    /\ tasks' = [tasks EXCEPT ![SlashTask] = NoTask]
    /\ ag' = KeepIfHeld(ag, SlashTask, NewActionGroup)
    /\ conn' = KeepIfHeld(conn, SlashTask, "none")
    /\ cur' = 0
    /\ UNCHANGED << clock, envVars, calls, inflight, store, sys, callToolCount >>

\* the response has been delivered; the handler is ready for the next event
Deliver ==
    /\ hpc = "responded"
    /\ hpc' = "idle"
    /\ inflight' = NoRequest
    /\ resp' = NoResp
    /\ UNCHANGED << clock, envVars, cur, calls, store, bridgeVars, tasks >>

\* a process_event coroutine, or a direct process_request call, has ended
\* (returned or raised): the loop drops it and is free again
Reap(t) ==
    /\ cur = t
    /\ tasks[t].kind \in { "event", "direct" }
    /\ tasks[t].pc = "done"
    /\ tasks' = [tasks EXCEPT ![t] = NoTask]
    /\ ag' = KeepIfHeld(ag, t, NewActionGroup)
    /\ conn' = KeepIfHeld(conn, t, "none")
    /\ cur' = 0
    /\ UNCHANGED << clock, envVars, gatewayVars, store, sys, callToolCount >>

\* -------------------------------------------------------------------- tasks
\* the loop can resume a coroutine: no coroutine is executing and the
\* caller of lambda_handler is not inside it (it is waiting, or blocked in
\* run_until_complete)
LoopFree == cur = 0 /\ hpc \in {"idle", "blocked"}

Mode(tk) ==
    IF tk.kind = "slash" THEN "slash"
    ELSE IF tk.kind = "direct" THEN "direct"
    ELSE IF tk.body.ev = "app_mention" THEN "mention"
    ELSE "dm"

\* one call of the chat SDK as it appears in a task's log
ChatCall(op, channel, text, ts, ok) ==
    [ op |-> op, channel |-> channel, text |-> text, ts |-> ts, ok |-> ok ]

\* slack_client.chat_postMessage(channel=channel_id, text=text)
PostMessage(tk, text, ok) ==
    [tk EXCEPT !.log = Append(@, ChatCall("post", tk.body.channel, text, 0, ok))]

\* slack_client.chat_update(channel=channel_id, ts=message_ts, text=text)
UpdateMessage(tk, text, ok) ==
    [tk EXCEPT !.log = Append(@, ChatCall("update", tk.body.channel, text, tk.message_ts, ok))]

\* a relay that does not keep the ts of the message it posted
PostOrUpdateForgetsTs(tk, ok, final) ==
    LET full_text == Join(tk.chunks)
    IN  IF tk.message_ts # 0
        THEN UpdateMessage(tk, full_text, ok)
        ELSE PostMessage(tk, full_text, ok)

\* a relay that sends the chunks received since its last call instead of
\* the accumulated text
PostOrUpdateDelta(tk, ok, final) ==
    LET sent == BatchSize * Len(tk.log)
        full_text == Join(SubSeq(tk.chunks, sent + 1, Len(tk.chunks)))
    IN  IF tk.message_ts # 0
        THEN UpdateMessage(tk, full_text, ok)
        ELSE IF final
        THEN PostMessage(tk, full_text, ok)
        ELSE [ PostMessage(tk, full_text, ok) EXCEPT
                 !.message_ts = IF ok THEN Len(tk.log) + 1 ELSE 0 ]

\* the streaming relay's post-or-update of the accumulated text; the ts of
\* a new message is its place in the log
PostOrUpdate(tk, ok, final) ==
    LET full_text == Join(tk.chunks)
    IN  IF tk.message_ts # 0
        THEN UpdateMessage(tk, full_text, ok)
        ELSE IF final
        THEN PostMessage(tk, full_text, ok)
        ELSE [ PostMessage(tk, full_text, ok) EXCEPT
                 !.message_ts = IF ok THEN Len(tk.log) + 1 ELSE 0 ]

Finish(tk) == [tk EXCEPT !.pc = "done"]
Catch(tk, e) == [tk EXCEPT !.pc = "except", !.caught = e]

\* process_event, from its entry to the first chat call or stream request
EventStart(t) ==
    /\ LoopFree
    /\ tasks[t].kind = "event"
    /\ tasks[t].pc = "start"
    /\ LET tk == tasks[t]
           event == tk.body
       IN  IF event.ev = "app_mention"
           THEN IF event.auth = "empty"
                THEN \* event_data.get('authorizations', [{}])[0] on an empty list
                     /\ tasks' = [tasks EXCEPT ![t] = [Finish(tk) EXCEPT !.exc = "IndexError"]]
                     /\ UNCHANGED << clock, store >>
                ELSE IF Strip(RemoveMention(event.text)) = <<>>
                THEN /\ tasks' = [tasks EXCEPT ![t] = Finish(tk)]
                     /\ UNCHANGED << clock, store >>
                ELSE /\ \E r \in get_or_create_session(tk, event.user, event.channel) :
                          /\ store' = r.store
                          /\ clock' = r.clock
                          /\ tasks' = [tasks EXCEPT ![t] = [r.task EXCEPT !.pc = "ack"]]
           ELSE IF event.ev = "message" /\ event.im
           THEN IF event.bot \/ event.text = <<>>
                THEN /\ tasks' = [tasks EXCEPT ![t] = Finish(tk)]
                     /\ UNCHANGED << clock, store >>
                ELSE /\ \E r \in get_or_create_session(tk, event.user, event.channel) :
                          /\ store' = r.store
                          /\ clock' = r.clock
                          /\ tasks' = [tasks EXCEPT ![t] =
                                         [r.task EXCEPT !.pc = "request", !.message_ts = 0, !.chunks = <<>>]]
           ELSE /\ tasks' = [tasks EXCEPT ![t] = Finish(tk)]
                /\ UNCHANGED << clock, store >>
    /\ cur' = t
    /\ UNCHANGED << envVars, gatewayVars, bridgeVars >>

SlashResult(response_type, text) == MkResp(200, "response_type", response_type, text)

\* process_slash_command after the session is resolved: a static answer, or
\* on to the acknowledgment post
SlashRoute(tk) ==
    LET command_data == tk.body
        text == Strip(command_data.text)
    IN  IF command_data.command = "/jamf"
        THEN IF text = <<>>
             THEN [Finish(tk) EXCEPT !.result = SlashResult("ephemeral", "help_intro")]
             ELSE IF Lower(text) = <<"h", "e", "l", "p">>
             THEN [Finish(tk) EXCEPT !.result = SlashResult("ephemeral", "help_commands")]
             ELSE [tk EXCEPT !.pc = "ack"]
        ELSE [Finish(tk) EXCEPT !.result = SlashResult("ephemeral", "unknown_command")]

\* process_slash_command, from its entry to a static answer or the
\* acknowledgment post
SlashStart(t) ==
    /\ LoopFree
    /\ tasks[t].kind = "slash"
    /\ tasks[t].pc = "start"
    /\ \E r \in get_or_create_session(tasks[t], tasks[t].body.user, tasks[t].body.channel) :
         /\ store' = r.store
         /\ clock' = r.clock
         /\ tasks' = [tasks EXCEPT ![t] = SlashRoute(r.task)]
    /\ cur' = t
    /\ UNCHANGED << envVars, gatewayVars, bridgeVars >>

\* the "Thinking..." / "Processing: ..." post that precedes the dispatch
Ack(t) ==
    /\ cur = t
    /\ tasks[t].pc = "ack"
    /\ LET tk == tasks[t]
           text == IF Mode(tk) = "slash" THEN <<"processing">> ELSE <<"thinking">>
       IN  \E ok \in BOOLEAN :
             tasks' = [tasks EXCEPT ![t] =
                         IF ok THEN [PostMessage(tk, text, TRUE) EXCEPT !.pc = "request"]
                         ELSE Catch(PostMessage(tk, text, FALSE), "SlackApiError")]
    /\ UNCHANGED << clock, envVars, cur, gatewayVars, store, bridgeVars >>

\* an initialize that ignores the environment flag and always takes the
\* stdio transport
EnsureInitializedStdioOnly(t) ==
    /\ cur = t
    /\ tasks[t].pc = "request"
    /\ LET tk == tasks[t]
       IN  IF sys.initialized
           THEN /\ tasks' = [tasks EXCEPT ![t].pc = "invoke"]
                /\ UNCHANGED << cur, sys, ag >>
           ELSE /\ sys' = [sys EXCEPT !.mcp_action_group = t]
                /\ ag' = [ag EXCEPT ![t] = NewActionGroup]
                /\ tasks' = [tasks EXCEPT ![t] =
                               [tk EXCEPT !.pc = "connect", !.fx = @ \cup {"initialize"}]]
                /\ cur' = 0
    /\ UNCHANGED << clock, envVars, gatewayVars, store, conn, callToolCount >>

\* process_request / process_request_streaming: "if not self.initialized:
\* await self.initialize()", down to the point where the transport is opened
EnsureInitialized(t) ==
    /\ cur = t
    /\ tasks[t].pc = "request"
    /\ LET tk == tasks[t]
       IN  IF sys.initialized
           THEN /\ tasks' = [tasks EXCEPT ![t].pc = "invoke"]
                /\ UNCHANGED << cur, sys, ag >>
           ELSE /\ sys' = [sys EXCEPT !.mcp_action_group = t]
                /\ ag' = [ag EXCEPT ![t] = NewActionGroup]
                /\ IF production
                   THEN \* _connect_http_mcp
                        /\ tasks' = [tasks EXCEPT ![t] =
                                       Catch([tk EXCEPT !.fx = @ \cup {"initialize"}], "NotImplementedError")]
                        /\ UNCHANGED cur
                   ELSE \* _connect_stdio_mcp suspends at the subprocess spawn
                        /\ tasks' = [tasks EXCEPT ![t] =
                                       [tk EXCEPT !.pc = "connect", !.fx = @ \cup {"initialize"}]]
                        /\ cur' = 0
    /\ UNCHANGED << clock, envVars, gatewayVars, store, conn, callToolCount >>

\* _connect_stdio_mcp: the transport and the client session are entered and
\* the handshake (session.initialize) is sent
ConnectOpen(t) ==
    /\ LoopFree
    /\ tasks[t].pc = "connect"
    /\ \E ok \in BOOLEAN :
         IF ok
         THEN /\ conn' = [conn EXCEPT ![t] = "open"]
              /\ tasks' = [tasks EXCEPT ![t] = [tasks[t] EXCEPT !.pc = "handshake", !.fx = @ \cup {"connect"}]]
              /\ UNCHANGED cur
         ELSE /\ tasks' = [tasks EXCEPT ![t] = Catch(tasks[t], "TransportError")]
              /\ cur' = t
              /\ UNCHANGED conn
    /\ UNCHANGED << clock, envVars, gatewayVars, store, sys, ag, callToolCount >>

\* the handshake answer arrives: "return session" leaves both async with
\* blocks, which closes the session and the transport; initialize stores the
\* session and _discover_tools sends list_tools on it
ConnectReturn(t) ==
    /\ LoopFree
    /\ tasks[t].pc = "handshake"
    /\ conn' = [conn EXCEPT ![t] = "closed"]
    /\ \E ok \in BOOLEAN :
         IF ok
         THEN /\ ag' = [ag EXCEPT ![t].mcp_session = "session"]
              /\ tasks' = [tasks EXCEPT ![t] = [tasks[t] EXCEPT !.pc = "discover", !.fx = @ \cup {"list_tools"}]]
              /\ UNCHANGED cur
         ELSE /\ tasks' = [tasks EXCEPT ![t] = Catch(tasks[t], "TransportError")]
              /\ cur' = t
              /\ UNCHANGED ag
    /\ UNCHANGED << clock, envVars, gatewayVars, store, sys, callToolCount >>

\* create_jamf_agents
create_jamf_agents == AgentNames

\* the answer to list_tools arrives; _discover_tools fills available_tools
\* and JamfAgentSystem.initialize creates the agents and sets initialized
Discover(t) ==
    /\ LoopFree
    /\ tasks[t].pc = "discover"
    /\ \/ \E tools \in ProviderToolSets :
            /\ ag' = [ag EXCEPT ![t].available_tools = @ \cup tools]
            /\ sys' = [sys EXCEPT !.agents = create_jamf_agents, !.initialized = TRUE]
            /\ tasks' = [tasks EXCEPT ![t].pc = "invoke"]
       \/ /\ tasks' = [tasks EXCEPT ![t] = Catch(tasks[t], "TransportError")]
          /\ UNCHANGED << ag, sys >>
    /\ cur' = t
    /\ UNCHANGED << clock, envVars, gatewayVars, store, conn, callToolCount >>

\* --------------------------------------------------- agent runtime and tools
\* the discovered set of the tool bridge the agent system holds
Discovered ==
    IF sys.mcp_action_group = 0 THEN {} ELSE ag[sys.mcp_action_group].available_tools

\* search_devices / get_device_details / execute_policy / update_inventory:
\* "await global_mcp_client.call_tool(name, {...})"
tool_function(name, discovered) ==
    IF global_mcp_client = "None"
    THEN [ name |-> name, known |-> name \in discovered, error |-> "AttributeError", sent |-> FALSE ]
    ELSE [ name |-> name, known |-> name \in discovered, error |-> "", sent |-> TRUE ]

\* the agent runtime runs one of the operations it was configured with
RunTool(tk, name) ==
    [tk EXCEPT !.tool = tool_function(name, Discovered), !.ntools = @ + 1]

Sent(name) == IF tool_function(name, Discovered).sent THEN 1 ELSE 0

\* f"session_{datetime.now().isoformat()}"
GeneratedSessionId(now) ==
    <<"session_">> \o [i \in 1..Len(IsoFormat(now)) |-> ToString(IsoFormat(now)[i])]

\* the session_id argument of orchestrator.invoke:
\* "session_id or f'session_{...}'"; <<>> stands for None (and for '')
InvokedSessionId(session_id, now) ==
    IF session_id # <<>> THEN session_id ELSE GeneratedSessionId(now)

\* response.get("session_id", session_id): the runtime's answer may or may
\* not carry the id it was invoked with
ReturnedSessionId(echo, invoked, session_id) ==
    IF echo THEN invoked ELSE session_id

\* process_request after initialization: orchestrator.invoke is entered
Invoke(t) ==
    /\ cur = t
    /\ tasks[t].pc = "invoke"
    /\ Mode(tasks[t]) \in {"slash", "mention", "direct"}
    /\ IF "orchestrator" \notin sys.agents
       THEN /\ tasks' = [tasks EXCEPT ![t] = Catch(tasks[t], "KeyError")]
            /\ UNCHANGED clock
       ELSE \E now \in (IF tasks[t].sid # <<>> THEN { clock } ELSE Readings) :
              /\ clock' = now
              /\ tasks' = [tasks EXCEPT ![t] =
                             [tasks[t] EXCEPT !.pc = "running", !.fx = @ \cup {"invoke"},
                                              !.asid = InvokedSessionId(tasks[t].sid, now)]]
    /\ UNCHANGED << envVars, cur, gatewayVars, store, bridgeVars >>

\* a tool operation run by the agent runtime inside orchestrator.invoke
ToolOp(t) ==
    /\ cur = t
    /\ tasks[t].pc = "running"
    /\ tasks[t].ntools < MaxToolCalls
    /\ \E name \in AgentTools :
         /\ tasks' = [tasks EXCEPT ![t] = RunTool(tasks[t], name)]
         /\ callToolCount' = callToolCount + Sent(name)
    /\ UNCHANGED << clock, envVars, cur, gatewayVars, store, sys, ag, conn >>

\* orchestrator.invoke returns or raises; process_request builds its
\* dictionary and, for a slash command, the answer is formatted
InvokeReturn(t) ==
    /\ cur = t
    /\ tasks[t].pc = "running"
    /\ LET tk == tasks[t]
           returned(echo) == [tk EXCEPT !.rsid = ReturnedSessionId(echo, tk.asid, tk.sid)]
       IN  \E ok, echo \in BOOLEAN :
             IF ~ok
             THEN tasks' = [tasks EXCEPT ![t] = Catch(tk, "AgentError")]
             ELSE IF Mode(tk) = "slash"
             THEN tasks' = [tasks EXCEPT ![t] =
                              [Finish(returned(echo)) EXCEPT !.result = SlashResult("in_channel", "output")]]
             ELSE IF Mode(tk) = "direct"
             THEN tasks' = [tasks EXCEPT ![t] = Finish(returned(echo))]
             ELSE tasks' = [tasks EXCEPT ![t] = [returned(echo) EXCEPT !.pc = "respond"]]
    /\ UNCHANGED << clock, envVars, cur, gatewayVars, store, bridgeVars >>

\* process_request_streaming after initialization: invoke_stream is called
\* and the relay waits for the first chunk
InvokeStream(t) ==
    /\ cur = t
    /\ tasks[t].pc = "invoke"
    /\ Mode(tasks[t]) = "dm"
    /\ IF "orchestrator" \notin sys.agents
       THEN /\ tasks' = [tasks EXCEPT ![t] = Catch(tasks[t], "KeyError")]
            /\ UNCHANGED cur
       ELSE /\ tasks' = [tasks EXCEPT ![t] = [tasks[t] EXCEPT !.pc = "stream", !.fx = @ \cup {"invoke"}]]
            /\ cur' = 0
    /\ UNCHANGED << clock, envVars, gatewayVars, store, bridgeVars >>

\* the text of the k-th content chunk of a stream
ChunkText(k) == << ToString(k) >>

\* one chunk arrives: the body of the "async for" loop of process_event
StreamChunk(t) ==
    /\ LoopFree
    /\ tasks[t].pc = "stream"
    /\ LET tk == tasks[t]
       IN  \/ \* a chunk of type 'content'
              /\ Len(tk.chunks) < ChunkLimit
              /\ LET tk2 == [tk EXCEPT !.chunks = Append(@, ChunkText(Len(tk.chunks) + 1))]
                 IN  IF Len(tk2.chunks) % BatchSize = 0
                     THEN \E ok \in BOOLEAN :
                            IF ok
                            THEN /\ tasks' = [tasks EXCEPT ![t] = PostOrUpdate(tk2, TRUE, FALSE)]
                                 /\ UNCHANGED cur
                            ELSE /\ tasks' = [tasks EXCEPT ![t] =
                                                Catch(PostOrUpdate(tk2, FALSE, FALSE), "SlackApiError")]
                                 /\ cur' = t
                     ELSE /\ tasks' = [tasks EXCEPT ![t] = tk2]
                          /\ UNCHANGED cur
              /\ UNCHANGED callToolCount
           \/ \* a chunk of another type: the relay skips it
              /\ tasks' = [tasks EXCEPT ![t].skipped = TRUE]
              /\ UNCHANGED << cur, callToolCount >>
    /\ UNCHANGED << clock, envVars, gatewayVars, store, sys, ag, conn >>

\* the stream is exhausted: the final update of process_event
StreamEnd(t) ==
    /\ LoopFree
    /\ tasks[t].pc = "stream"
    /\ LET tk == tasks[t]
       IN  IF tk.chunks # <<>>
           THEN \E ok \in BOOLEAN :
                  tasks' = [tasks EXCEPT ![t] =
                              IF ok THEN Finish(PostOrUpdate(tk, TRUE, TRUE))
                              ELSE Catch(PostOrUpdate(tk, FALSE, TRUE), "SlackApiError")]
           ELSE tasks' = [tasks EXCEPT ![t] = Finish(tk)]
    /\ cur' = t
    /\ UNCHANGED << clock, envVars, gatewayVars, store, bridgeVars >>

\* the agent stream raises instead of yielding
StreamRaise(t) ==
    /\ LoopFree
    /\ tasks[t].pc = "stream"
    /\ tasks' = [tasks EXCEPT ![t] = Catch(tasks[t], "AgentError")]
    /\ cur' = t
    /\ UNCHANGED << clock, envVars, gatewayVars, store, bridgeVars >>

\* the post of the agent's answer to a mention
Respond(t) ==
    /\ cur = t
    /\ tasks[t].pc = "respond"
    /\ \E ok \in BOOLEAN :
         tasks' = [tasks EXCEPT ![t] =
                     IF ok THEN Finish(PostMessage(tasks[t], <<"output">>, TRUE))
                     ELSE Catch(PostMessage(tasks[t], <<"output">>, FALSE), "SlackApiError")]
    /\ UNCHANGED << clock, envVars, cur, gatewayVars, store, bridgeVars >>

\* the except clauses: process_slash_command returns an ephemeral error,
\* process_event posts one; a failing post leaves the task as an exception
Except(t) ==
    /\ cur = t
    /\ tasks[t].pc = "except"
    /\ LET tk == tasks[t]
       IN  IF Mode(tk) = "slash"
           THEN tasks' = [tasks EXCEPT ![t] =
                            [Finish(tk) EXCEPT !.result = SlashResult("ephemeral", "error")]]
           ELSE IF Mode(tk) = "direct"
           THEN \* process_request has no except clause: the caller gets the exception
                tasks' = [tasks EXCEPT ![t] = [Finish(tk) EXCEPT !.exc = tk.caught]]
           ELSE \E ok \in BOOLEAN :
                  tasks' = [tasks EXCEPT ![t] =
                              IF ok THEN Finish(PostMessage(tk, <<"error">>, TRUE))
                              ELSE [Finish(PostMessage(tk, <<"error">>, FALSE)) EXCEPT !.exc = "SlackApiError"]]
    /\ UNCHANGED << clock, envVars, cur, gatewayVars, store, bridgeVars >>

\* ------------------------------------------------- create_tool_functions
\* the tool names a provider may offer
ToolNames == AgentTools \cup { "listPolicies" }

\* available_tools as the dict holds it: names in the order of discovery,
\* none twice
ToolLists ==
    UNION { { l \in [1..n -> ToolNames] : \A i, j \in 1..n : l[i] = l[j] => i = j } :
              n \in 0..MaxTools }

\* create_tool_functions: one wrapper per tool, its __name__ set in the
\* loop; the wrappers close over the loop variable tool_name, which holds
\* the last name once the loop has ended
create_tool_functions(available_tools) ==
    [ tool_functions |-> [i \in 1..Len(available_tools) |-> [ name |-> available_tools[i] ]],
      tool_name |-> IF available_tools = <<>> THEN "" ELSE available_tools[Len(available_tools)] ]

\* calling the i-th wrapper: self.mcp_session.call_tool(tool_name, kwargs)
\* with the value tool_name has at the time of the call
wrapper_call(w, i) == [ wrapper |-> w.tool_functions[i].name, sent |-> w.tool_name ]

InitWrappers ==
    /\ wrappers \in { [NoWrappers EXCEPT !.available_tools = l] : l \in ToolLists }
    /\ procs = NoProcs
    /\ clock = 0
    /\ loopRunning = TRUE
    /\ mode = "direct"
    /\ production = FALSE
    /\ cur = 0
    /\ calls = 0
    /\ hpc = "idle"
    /\ inflight = NoRequest
    /\ resp = NoResp
    /\ store = {}
    /\ sys = NewAgentSystem
    /\ ag = [t \in TaskIds |-> NewActionGroup]
    /\ conn = [t \in TaskIds |-> "none"]
    /\ tasks = [t \in TaskIds |-> NoTask]
    /\ callToolCount = 0

CreateToolFunctions ==
    /\ ~wrappers.built
    /\ LET made == create_tool_functions(wrappers.available_tools)
       IN  wrappers' = [wrappers EXCEPT !.built = TRUE,
                                        !.tool_functions = made.tool_functions,
                                        !.tool_name = made.tool_name]
    /\ UNCHANGED << clock, loopRunning, mode, production, cur, gatewayVars, store,
                    bridgeVars, tasks, procs >>

CallWrapper ==
    /\ wrappers.built
    /\ Len(wrappers.calls) < MaxWrapperCalls
    /\ \E i \in 1..Len(wrappers.tool_functions) :
         wrappers' = [wrappers EXCEPT !.calls = Append(@, wrapper_call(wrappers, i))]
    /\ UNCHANGED << clock, loopRunning, mode, production, cur, gatewayVars, store,
                    bridgeVars, tasks, procs >>

NextWrappers == CreateToolFunctions \/ CallWrapper

SpecWrappers == InitWrappers /\ [][NextWrappers]_vars

\* ------------------------------- get_or_create_session, several processes
\* Each handler process is its own execution environment; all of them use
\* the one sessions_table.  Inside a process get_or_create_session runs
\* without suspension, between processes every store call is a step.

\* two successive readings of utcnow(), as put_item takes them
TwoReadings == { p \in Readings \X ReadingsAfter(clock + 1) : p[2] \in ReadingsAfter(p[1]) }

InitSessions ==
    /\ procs = NoProcs
    /\ wrappers = NoWrappers
    /\ clock = 0
    /\ loopRunning = FALSE
    /\ mode = "serial"
    /\ production = FALSE
    /\ cur = 0
    /\ calls = 0
    /\ hpc = "idle"
    /\ inflight = NoRequest
    /\ resp = NoResp
    /\ store = {}
    /\ sys = NewAgentSystem
    /\ ag = [t \in TaskIds |-> NewActionGroup]
    /\ conn = [t \in TaskIds |-> "none"]
    /\ tasks = [t \in TaskIds |-> NoTask]
    /\ callToolCount = 0

\* what the steps of the processes leave as it is
sessionFrame == << loopRunning, mode, production, cur, gatewayVars, bridgeVars, tasks, wrappers >>

\* the process is back from get_or_create_session
Returned(pr, ok) == [ IdleProc EXCEPT !.ncalls = pr.ncalls, !.logged = ~ok ]

\* a process enters get_or_create_session(user_id, channel_id); the
\* processes are alike, so they are numbered in the order of their first call
SessionCall(p) ==
    /\ procs[p].pc = "idle"
    /\ procs[p].ncalls < MaxProcCalls
    /\ \A q \in 1..(p - 1) : procs[q].ncalls > 0
    /\ \E uc \in Pairs :
         procs' = [procs EXCEPT ![p] = [ pc |-> "get_item", pair |-> uc,
                                         ncalls |-> @.ncalls + 1, logged |-> FALSE ]]
    /\ UNCHANGED << clock, store, sessionFrame >>

\* response = sessions_table.get_item(...); 'Item' in response chooses the
\* branch; a get_item that raises is logged and the session_id returned
SessionGetItem(p) ==
    /\ procs[p].pc = "get_item"
    /\ LET session_id == SessionId(procs[p].pair[1], procs[p].pair[2])
       IN  \/ procs' = [procs EXCEPT ![p].pc =
                          IF GetItem(store, session_id) # {} THEN "update_item" ELSE "put_item"]
           \/ procs' = [procs EXCEPT ![p] = Returned(@, FALSE)]
    /\ UNCHANGED << clock, store, sessionFrame >>

\* sessions_table.update_item(... 'SET last_accessed = :time'); return session_id
SessionUpdateItem(p) ==
    /\ procs[p].pc = "update_item"
    /\ LET session_id == SessionId(procs[p].pair[1], procs[p].pair[2])
       IN  \E t1 \in Readings, ok \in BOOLEAN :
             /\ clock' = t1
             /\ store' = IF ok THEN UpdateItem(store, session_id, IsoFormat(t1)) ELSE store
             /\ procs' = [procs EXCEPT ![p] = Returned(@, ok)]
    /\ UNCHANGED sessionFrame

\* sessions_table.put_item(Item={...}); return session_id
SessionPutItem(p) ==
    /\ procs[p].pc = "put_item"
    /\ LET user_id == procs[p].pair[1]
           channel_id == procs[p].pair[2]
           session_id == SessionId(user_id, channel_id)
       IN  \E tt \in TwoReadings, ok \in BOOLEAN :
             /\ clock' = tt[2]
             /\ store' = IF ok
                         THEN PutItem(store, Item(session_id, user_id, channel_id,
                                                  IsoFormat(tt[1]), IsoFormat(tt[2])))
                         ELSE store
             /\ procs' = [procs EXCEPT ![p] = Returned(@, ok)]
    /\ UNCHANGED sessionFrame

NextSessions ==
    \/ \E p \in ProcIds : SessionCall(p)
    \/ \E p \in ProcIds : SessionGetItem(p)
    \/ \E p \in ProcIds : SessionUpdateItem(p)
    \/ \E p \in ProcIds : SessionPutItem(p)

SpecSessions == InitSessions /\ [][NextSessions]_vars

\* ------------------------------------------------------------- specification
Next ==
    \/ Receive
    \/ DirectCall
    \/ LambdaHandler
    \/ SlashReturn
    \/ Deliver
    \/ \E t \in TaskIds : Reap(t)
    \/ \E t \in TaskIds : EventStart(t)
    \/ \E t \in TaskIds : SlashStart(t)
    \/ \E t \in TaskIds : Ack(t)
    \/ \E t \in TaskIds : EnsureInitialized(t)
    \/ \E t \in TaskIds : ConnectOpen(t)
    \/ \E t \in TaskIds : ConnectReturn(t)
    \/ \E t \in TaskIds : Discover(t)
    \/ \E t \in TaskIds : Invoke(t)
    \/ \E t \in TaskIds : ToolOp(t)
    \/ \E t \in TaskIds : InvokeReturn(t)
    \/ \E t \in TaskIds : InvokeStream(t)
    \/ \E t \in TaskIds : StreamChunk(t)
    \/ \E t \in TaskIds : StreamEnd(t)
    \/ \E t \in TaskIds : StreamRaise(t)
    \/ \E t \in TaskIds : Respond(t)
    \/ \E t \in TaskIds : Except(t)

Spec == Init /\ [][Next]_vars

\* ------------------------------------------------------------------- claims
\* lambda_handler has just run on inflight: it returned, raised, or is
\* blocked in run_until_complete with the coroutine not yet started; clock
\* is the time.time() reading verify_slack_request took
HandlerRan ==
    \/ hpc = "responded" /\ resp.key # "response_type"
    \/ hpc = "blocked" /\ tasks[SlashTask].pc = "start"

Unauthorized == MkResp(401, "error", "Unauthorized", "")

\* the call got past verify_slack_request
Accepted == resp # Unauthorized /\ resp # Raised("ValueError")

\* what the contract calls authentic: a readable timestamp at most 300
\* seconds from now and the signature 'v0=' + HMAC(secret, 'v0:ts:body')
Authentic(ev, now) ==
    /\ ev.ts.kind = "numeric"
    /\ Abs(now - 2 * ev.ts.val) <= 2 * 300
    /\ ev.sig = <<"v0=", HmacDigest(SLACK_SIGNING_SECRET, ev.ts.val, ev.body)>>

\* C1: two requests that find the system uninitialized perform one
\* transport handshake and one discovery call between them: no two
\* coroutines, neither of which has failed, have both opened the transport
\* or both sent list_tools.  (Refuted: initialize takes no lock.)
C1_SingleInitialization ==
    \A t, u \in TaskIds :
        (t # u /\ tasks[t].caught = "" /\ tasks[u].caught = "")
        => /\ ~("connect" \in tasks[t].fx /\ "connect" \in tasks[u].fx)
           /\ ~("list_tools" \in tasks[t].fx /\ "list_tools" \in tasks[u].fx)

\* C2: once lambda_handler has run, the call was accepted exactly when its
\* signature is 'v0=' + HMAC(secret, 'v0:<timestamp>:<body>') and its
\* timestamp is at most 300 seconds from the clock reading.
C2_AcceptsExactlyAuthentic ==
    HandlerRan => (Accepted <=> Authentic(inflight, clock))

\* C2 witness: a call accepted with a timestamp exactly 300 seconds away
C2_Witness ==
    /\ HandlerRan
    /\ Accepted
    /\ Abs(clock - 2 * inflight.ts.val) = 2 * 300

\* C3: every call that fails verification is answered 401 Unauthorized and
\* starts no coroutine.  (Refuted: a missing or unreadable timestamp header
\* makes int() raise out of lambda_handler.)
C3_UnverifiedGets401 ==
    (HandlerRan /\ ~Authentic(inflight, clock))
    => /\ resp = Unauthorized
       /\ \A t \in TaskIds : tasks[t].pc # "start"

\* the concatenation of the first m content chunks of a stream
ExpectedText(m) == Join([i \in 1..m |-> ChunkText(i)])

\* C4: a direct-message coroutine that ended without a failure after a
\* stream of n content chunks (other chunks skipped) made floor(n/5)
\* intermediate calls, the k-th with the first 5k chunks, then one final
\* call with all n chunks in order; the first call of the stream creates
\* the message and the others update it; with n = 0 it made no call.
C4_StreamRelay ==
    \A t \in TaskIds :
        LET tk == tasks[t]
            n == Len(tk.chunks)
            q == n \div 5
        IN  (tk.kind = "event" /\ Mode(tk) = "dm" /\ tk.pc = "done" /\ tk.caught = "" /\ tk.exc = "")
            => /\ tk.chunks = [i \in 1..n |-> ChunkText(i)]
               /\ IF n = 0
                  THEN tk.log = <<>>
                  ELSE /\ Len(tk.log) = q + 1
                       /\ \A k \in 1..q : tk.log[k].text = ExpectedText(5 * k)
                       /\ tk.log[q + 1].text = ExpectedText(n)
                       /\ \A k \in 1..(q + 1) :
                            /\ tk.log[k].ok
                            /\ tk.log[k].channel = tk.body.channel
                            /\ IF k = 1
                               THEN tk.log[k].op = "post"
                               ELSE tk.log[k].op = "update" /\ tk.log[k].ts = 1

\* C4 witness: a stream of 12 content chunks with other chunks in between,
\* relayed with 2 intermediate calls and the final one
C4_Witness ==
    \E t \in TaskIds :
        /\ tasks[t].pc = "done"
        /\ tasks[t].caught = ""
        /\ tasks[t].skipped
        /\ Len(tasks[t].chunks) = 12
        /\ Len(tasks[t].log) = 3

\* the call's content type names JSON
JsonCall(ev) == ev.ctype \in { "application/json", "application/json; charset=utf-8" }

\* C5: lambda_handler answers a verified JSON call of type url_verification
\* with 200 and {challenge: c}, and the step touches neither the session
\* store nor any coroutine nor the agent system.
C5_ChallengeEcho ==
    [][ ( /\ hpc = "received"
          /\ hpc' # "received"
          /\ Authentic(inflight, clock')
          /\ JsonCall(inflight)
          /\ inflight.body.kind = "url_verification" )
        => /\ resp' = MkResp(200, "challenge", inflight.body.challenge, "")
           /\ hpc' = "responded"
           /\ UNCHANGED << store, tasks, sys, ag, conn, callToolCount >> ]_vars

\* C5 witness: the challenge abc123 echoed for a JSON content type that
\* carries a charset
C5_Witness ==
    /\ hpc = "responded"
    /\ inflight.ctype = "application/json; charset=utf-8"
    /\ inflight.body.challenge = "abc123"
    /\ resp = MkResp(200, "challenge", "abc123", "")

\* the texts the contract calls empty or 'help'
BlankTexts == { <<>>, <<" ">> }
HelpTexts == { <<"h","e","l","p">>, <<"H","E","L","P">>, <<" ","H","e","l","p"," ">> }

\* C6: a '/jamf' slash command whose text is empty or 'help' (any case,
\* surrounding blanks ignored) ends with a static ephemeral help text and
\* its coroutine never initialized the tool bridge, never invoked the
\* agent runtime and never posted.
C6_StaticHelp ==
    \A t \in TaskIds :
        LET tk == tasks[t]
        IN  ( /\ tk.kind = "slash"
              /\ tk.pc = "done"
              /\ tk.body.command = "/jamf"
              /\ tk.body.text \in BlankTexts \cup HelpTexts )
            => /\ tk.result = MkResp(200, "response_type", "ephemeral",
                                     IF tk.body.text \in BlankTexts THEN "help_intro" ELSE "help_commands")
               /\ tk.fx \cap { "initialize", "connect", "list_tools", "invoke" } = {}
               /\ tk.ntools = 0
               /\ tk.log = <<>>

\* C6 witness: ' Help ' answered with the command list
C6_Witness ==
    \E t \in TaskIds :
        /\ tasks[t].kind = "slash"
        /\ tasks[t].pc = "done"
        /\ tasks[t].body.text = <<" ","H","e","l","p"," ">>
        /\ tasks[t].result.text = "help_commands"

\* task t runs get_or_create_session in this step
SessionStep(t) ==
    /\ tasks[t].pc = "start"
    /\ tasks'[t].pc # "start"
    /\ "get_item" \in tasks'[t].fx

\* C7: every get_or_create_session call returns user_id + '_' + channel_id,
\* leaves at most one record under that key and every other record alone;
\* a call that logged a store failure leaves the store as it was; else the
\* call that finds no record inserts one for the pair and a call that finds
\* one changes only last_accessed, to a value not below the stored one.
C7_SessionIdempotent ==
    [][ \A t \in TaskIds :
          SessionStep(t) =>
            LET u == tasks[t].body.user
                c == tasks[t].body.channel
                sid == u \o <<"_">> \o c
                old == { it \in store : it.session_id = sid }
                new == { it \in store' : it.session_id = sid }
                failed == "logger.error" \in tasks'[t].fx
                time == IsoFormat(clock')
            IN  /\ tasks'[t].sid = sid
                /\ Cardinality(new) <= 1
                /\ Cardinality({ it \in store' : it.user_id = u /\ it.channel_id = c }) <= 1
                /\ { it \in store' : it.session_id # sid } = { it \in store : it.session_id # sid }
                /\ failed => store' = store
                /\ (~failed /\ old = {}) =>
                      \E it \in new : /\ it.user_id = u
                                      /\ it.channel_id = c
                                      /\ it.last_accessed = time
                                      /\ IsoLeq(it.created_at, it.last_accessed)
                /\ (~failed /\ old # {}) =>
                      \A o \in old : /\ new = { [o EXCEPT !.last_accessed = time] }
                                     /\ IsoLeq(o.last_accessed, time) ]_vars

\* C7 witness: a later call has moved last_accessed of an existing record
\* past its creation time
C7_Witness ==
    \E t \in TaskIds :
        /\ "update_item" \in tasks[t].fx
        /\ "logger.error" \notin tasks[t].fx
        /\ \E it \in store : /\ it.session_id = tasks[t].sid
                              /\ it.last_accessed = IsoFormat(clock)
                              /\ it.created_at # it.last_accessed
                              /\ IsoLeq(it.created_at, it.last_accessed)

\* C8: a tool operation whose name the tool bridge did not discover fails
\* with NotFound and sends no call_tool.  (Refuted: the operations do not
\* consult available_tools; they fail on the unset global client.)
C8_UnknownToolNotFound ==
    \A t \in TaskIds :
        (tasks[t].tool.name # "" /\ ~tasks[t].tool.known)
        => tasks[t].tool.error = "NotFound" /\ ~tasks[t].tool.sent

\* C9: a verified event_callback call is answered 200 {status: ok} and its
\* process_event coroutine has been created.  (Refuted: without a running
\* loop asyncio.create_task raises out of lambda_handler.)
C9_EventAcknowledged ==
    ( /\ HandlerRan
      /\ Authentic(inflight, clock)
      /\ JsonCall(inflight)
      /\ inflight.body.kind = "event_callback" )
    => /\ resp = MkResp(200, "status", "ok", "")
       /\ \E t \in TaskIds : tasks[t].pc = "start" /\ tasks[t].body = inflight.body

\* C10: a process_event coroutine that ended after a failure has posted an
\* error message to the channel of its event.  (Refuted: the mention text
\* is extracted outside the try block, and the error post itself can fail.)
C10_FailureIsReported ==
    \A t \in TaskIds :
        LET tk == tasks[t]
        IN  (tk.kind = "event" /\ tk.pc = "done" /\ (tk.exc # "" \/ tk.caught # ""))
            => \E i \in 1..Len(tk.log) :
                 /\ tk.log[i].text = <<"error">>
                 /\ tk.log[i].ok
                 /\ tk.log[i].channel = tk.body.channel

\* C11: with the production flag set the agent system never becomes
\* initialized and never holds agents or a connection; a coroutine that
\* entered initialize caught the NotImplementedError of _connect_http_mcp
\* at once, made no handshake, no discovery call and no agent invocation,
\* and ends with exactly one error: the ephemeral error answer of a slash
\* command, one error post attempt of an event, or the exception itself
\* for a direct caller of process_request.
C11_ProductionFailsFast ==
    production =>
        /\ ~sys.initialized
        /\ sys.agents = {}
        /\ \A t \in TaskIds : conn[t] = "none" /\ ag[t] = NewActionGroup
        /\ \A t \in TaskIds :
             LET tk == tasks[t]
                 errors == { i \in 1..Len(tk.log) : tk.log[i].text = <<"error">> }
             IN  "initialize" \in tk.fx =>
                   /\ tk.caught = "NotImplementedError"
                   /\ tk.fx \cap { "connect", "list_tools", "invoke" } = {}
                   /\ tk.ntools = 0
                   /\ tk.pc \in { "except", "done" }
                   /\ tk.pc = "done" =>
                        IF tk.kind = "slash"
                        THEN tk.result = MkResp(200, "response_type", "ephemeral", "error")
                        ELSE IF tk.kind = "direct"
                        THEN tk.exc = "NotImplementedError" /\ tk.log = <<>>
                        ELSE errors = { Len(tk.log) }

\* C11 witness: in production a slash command has been answered with the
\* error of the failed initialize
C11_Witness ==
    /\ production
    /\ \E t \in TaskIds :
         /\ tasks[t].kind = "slash"
         /\ tasks[t].pc = "done"
         /\ tasks[t].caught = "NotImplementedError"
         /\ tasks[t].result.text = "error"

\* C12: a get_or_create_session call whose store operation failed (it
\* logged the failure) raises nothing, returns user_id + '_' + channel_id
\* as a working store would, leaves the store as it was, and its coroutine
\* goes on to the step that follows session resolution.
C12_StoreFailureTolerated ==
    [][ \A t \in TaskIds :
          (SessionStep(t) /\ "logger.error" \in tasks'[t].fx) =>
            /\ tasks'[t].sid = tasks[t].body.user \o <<"_">> \o tasks[t].body.channel
            /\ tasks'[t].exc = ""
            /\ tasks'[t].caught = ""
            /\ store' = store
            /\ IF tasks[t].kind = "slash"
               THEN tasks'[t].pc \in { "ack", "done" }
               ELSE IF tasks[t].body.ev = "app_mention"
               THEN tasks'[t].pc = "ack"
               ELSE tasks'[t].pc = "request" ]_vars

\* C12 witness: after a failed store call the request has gone on to the
\* agent runtime with the derived identifier
C12_Witness ==
    \E t \in TaskIds :
        /\ "logger.error" \in tasks[t].fx
        /\ "invoke" \in tasks[t].fx
        /\ tasks[t].sid = tasks[t].body.user \o <<"_">> \o tasks[t].body.channel
        /\ tasks[t].sid # <<"_">>

\* what the contract calls a malformed call: a content type that is neither
\* JSON nor URL-encoded form, a form without user_id, channel_id or
\* command, or a JSON envelope without a recognized type
Malformed(ev) ==
    \/ ~JsonCall(ev) /\ ev.ctype # "application/x-www-form-urlencoded"
    \/ /\ ev.ctype = "application/x-www-form-urlencoded"
       /\ (ev.body.user = <<>> \/ ev.body.channel = <<>> \/ ev.body.command = "")
    \/ JsonCall(ev) /\ ev.body.kind \notin { "url_verification", "event_callback" }

\* C13: a verified call that is malformed is answered 400 {error: 'Bad
\* request'} and starts no coroutine.  (Refuted: a form that lacks fields
\* is handed to process_slash_command with '' for each missing field.)
C13_MalformedGets400 ==
    (HandlerRan /\ Authentic(inflight, clock) /\ Malformed(inflight))
    => /\ resp = MkResp(400, "error", "Bad request", "")
       /\ \A t \in TaskIds : tasks[t].pc # "start"

\* C14: a process_request call made without a session_id that returned has
\* resolved one through the session keeper, and the session_id of its
\* response is that non-empty identifier, the one the agent runtime was
\* invoked with.  (Refuted: the id is made up from the clock, the session
\* keeper is not consulted, and the response carries None unless the
\* runtime echoes the id.)
C14_SessionResolved ==
    \A t \in TaskIds :
        (tasks[t].kind = "direct" /\ tasks[t].pc = "done" /\ tasks[t].exc = "")
        => /\ tasks[t].rsid # <<>>
           /\ tasks[t].rsid = tasks[t].asid
           /\ "get_item" \in tasks[t].fx

\* C15: a process_event coroutine for an app_mention with non-empty text
\* never consumes a stream, and once it has ended, the chat service having
\* accepted every call, it has made exactly one chat post, to the channel
\* of the event.  (Refuted: the "Thinking..."
\* post precedes the answer or the error post, so there are two.)
C15_MentionPostsOnce ==
    \A t \in TaskIds :
        LET tk == tasks[t]
        IN  (tk.kind = "event" /\ tk.body.ev = "app_mention" /\ tk.sid # <<>>)
            => /\ tk.pc # "stream"
               /\ tk.chunks = <<>>
               /\ (tk.pc = "done" /\ \A i \in 1..Len(tk.log) : tk.log[i].ok) =>
                    /\ Len(tk.log) = 1
                    /\ tk.log[1].op = "post"
                    /\ tk.log[1].channel = tk.body.channel

\* C16: once the agent system is initialized, the operations the agent
\* runtime was given are the tools the tool bridge discovered, and every
\* tool operation that ran has sent its call_tool over the transport.
\* (Refuted: the runtime gets four fixed operations, and they call the
\* unset global client instead of the tool bridge's session.)
C16_ToolsForwarded ==
    sys.initialized =>
        /\ AgentTools = Discovered
        /\ \A t \in TaskIds :
             tasks[t].tool.name # "" => tasks[t].tool.sent /\ tasks[t].tool.error = ""

\* C17: every call of a wrapper built by create_tool_functions sent the
\* wrapper's own name as the tool name.  (Refuted: the wrappers share the
\* loop variable, so each sends the name of the last tool.)
C17_WrapperSendsOwnName ==
    \A k \in 1..Len(wrappers.calls) : wrappers.calls[k].sent = wrappers.calls[k].wrapper

\* C18: a tool bridge that holds a session (it has connected, and sends
\* list_tools and call_tool on it) holds the one transport connection of
\* the process, and that connection is open.  (Refuted: "return session"
\* leaves the two async with blocks, which close the session and the
\* transport before initialize receives the session.)
C18_OneLiveConnection ==
    \A t \in TaskIds :
        ag[t].mcp_session = "session"
        => /\ conn[t] = "open"
           /\ \A u \in TaskIds : conn[u] # "none" => u = t

\* C19: among the chat calls a direct-message coroutine makes for the
\* streamed text (every call but the error post of the except clause) at
\* most one is a chat_postMessage, and every chat_update is addressed to
\* the ts that post returned.
C19_SingleStreamedMessage ==
    \A t \in TaskIds :
        LET tk == tasks[t]
            streamed == { i \in 1..Len(tk.log) : tk.log[i].text # <<"error">> }
        IN  (tk.kind = "event" /\ Mode(tk) = "dm")
            => /\ Cardinality({ i \in streamed : tk.log[i].op = "post" }) <= 1
               /\ \A i \in streamed :
                    tk.log[i].op = "update" =>
                      \E j \in streamed :
                        /\ j < i
                        /\ tk.log[j].op = "post"
                        /\ tk.log[j].ok
                        /\ tk.log[i].ts = j
                        /\ tk.log[i].channel = tk.log[j].channel

\* C19 witness: a stream whose first batch was posted and whose second
\* batch and final text were written to that message
C19_Witness ==
    \E t \in TaskIds :
        /\ Mode(tasks[t]) = "dm"
        /\ tasks[t].pc = "done"
        /\ Len(tasks[t].log) = 3
        /\ tasks[t].log[1].op = "post"
        /\ tasks[t].log[2].op = "update" /\ tasks[t].log[2].ts = 1
        /\ tasks[t].log[3].op = "update" /\ tasks[t].log[3].ts = 1

\* C20: the session record found under the session_id a coroutine got
\* from get_or_create_session belongs to the coroutine's own (user_id,
\* channel_id) pair: no two pairs share a session_id.  (Refuted: the id is
\* the two identifiers joined by '_', which is not injective.)
C20_SessionIdSeparatesPairs ==
    \A t \in TaskIds :
        \A it \in store :
            (tasks[t].sid # <<>> /\ it.session_id = tasks[t].sid)
            => it.user_id = tasks[t].body.user /\ it.channel_id = tasks[t].body.channel

\* C21: under every interleaving of get_or_create_session calls of
\* concurrent handler processes for one (user_id, channel_id) pair the
\* record is created once: a step of a process working on the pair of an
\* existing record leaves the record in the table with its created_at,
\* user_id and channel_id as they were.
C21_CreatedOnce ==
    [][\A p \in ProcIds : \A it \in store :
         (procs'[p] # procs[p] /\ procs[p].pair = << it.user_id, it.channel_id >>)
         => \E jt \in store' :
              /\ jt.session_id = it.session_id
              /\ jt.created_at = it.created_at
              /\ jt.user_id = it.user_id
              /\ jt.channel_id = it.channel_id]_vars

\* the tool bridge the agent system holds has finished connecting and
\* discovery: its session is stored and its available_tools are filled
\* (every provider offers at least one tool)
BridgeReady ==
    /\ sys.mcp_action_group # 0
    /\ ag[sys.mcp_action_group].mcp_session # "None"
    /\ Discovered # {}

\* C22: in every reachable state of JamfAgentSystem, initialized = true
\* implies that the tool bridge has finished connecting and discovery and
\* that agents contains the orchestrator.
C22_InitializedMeansReady ==
    sys.initialized => BridgeReady /\ "orchestrator" \in sys.agents

====
